---- MODULE Spec2Model ----
(***************************************************************************)
(* Covid_Simulation.py: two schools (S1 tests, S2 does not) and a pool of  *)
(* other residents, stepped day by day over repeated trials.  The sizes of *)
(* the town, the schools, the horizon and the number of trials are scaled  *)
(* down; the epidemiological timing constants are the source's.            *)
(***************************************************************************)
EXTENDS Integers, Sequences, FiniteSets, TLC

\* ---------------------------------------------------------------- constants
test_lag == 1
first_contagious_day == 3
last_contagious_day == 13
first_positive_test_day == 1
last_positive_test_day == 16
undetected_per_detected == 10
DaysInMonth == 30
NeverInfected == 1000000

\* Python's None for family_unit and earliest_positive_test_day.  Every
\* arithmetic use in the source is guarded by an "is None" test.
None == 0 - 999

\* ------------------------------------------------------------------- bounds
cases_in_aug == 1
S1_class_size == 3
S1_teachers == 1
S1_classes_in_school == 1
S2_class_size == 1
S2_teachers == 1
S2_classes_in_school == 2
PoolSize == 1
N_sim == 1
N_days == 8
\* at most this many outside cases are drawn in one trial
MaxOutsideCases == 2

S1 == "S1_school"
S2 == "S2_school"
Pool == "other_residents"
Schools == {S1, S2}

num_classrooms(s) == IF s = S1 THEN S1_classes_in_school ELSE S2_classes_in_school
class_size(s) == IF s = S1 THEN S1_class_size ELSE S2_class_size
teachers_per_class(s) == IF s = S1 THEN S1_teachers ELSE S2_teachers

\* the town: the source fixes population and derives the pool from it; here
\* the pool size is the bound and population is the matching total
population ==
    PoolSize + S1_classes_in_school * (S1_class_size + S1_teachers)
             + S2_classes_in_school * (S2_class_size + S2_teachers)

actual_cases_in_aug == cases_in_aug * (undetected_per_detected + 1)
\* new_cases_per_day = actual_cases_in_aug/30, kept as floor, ceil and the
\* numerator of its fractional part
new_cases_floor == actual_cases_in_aug \div DaysInMonth
fraction_part_num == actual_cases_in_aug % DaysInMonth
new_cases_ceil == new_cases_floor + (IF fraction_part_num = 0 THEN 0 ELSE 1)

Horizon == N_days + 2 * first_contagious_day

\* --------------------------------------------------------------- structure
\* a classroom is <<school, number>>, a person <<school, number, role, i>>
classrooms(s) == [k \in 1..num_classrooms(s) |-> <<s, k>>]
students(c) == [k \in 1..class_size(c[1]) |-> <<c[1], c[2], "student", k - 1>>]
teachers(c) == [k \in 1..teachers_per_class(c[1]) |-> <<c[1], c[2], "teacher", k - 1>>]

Range(f) == {f[k] : k \in DOMAIN f}
Classrooms == UNION {Range(classrooms(s)) : s \in Schools}
Students(s) == UNION {Range(students(c)) : c \in Range(classrooms(s))}
Members(c) == Range(students(c)) \cup Range(teachers(c))

\* school.total_people / total_students: sums over the classrooms
RECURSIVE total_people_from(_, _)
total_people_from(s, k) ==
    IF k > num_classrooms(s) THEN 0
    ELSE Len(students(<<s, k>>)) + Len(teachers(<<s, k>>)) + total_people_from(s, k + 1)
total_people(s) == total_people_from(s, 1)

RECURSIVE total_students_from(_, _)
total_students_from(s, k) ==
    IF k > num_classrooms(s) THEN 0
    ELSE Len(students(<<s, k>>)) + total_students_from(s, k + 1)
total_students(s) == total_students_from(s, 1)

\* the pool built one resident short of the configured population
NumResidents_one_short ==
    IF population - total_people(S1) - total_people(S2) - 1 > 0
    THEN population - total_people(S1) - total_people(S2) - 1 ELSE 0

\* other_residents: range(population - S1.total_people() - S2.total_people())
NumResidents ==
    IF population - total_people(S1) - total_people(S2) > 0
    THEN population - total_people(S1) - total_people(S2) ELSE 0
other_residents == [k \in 1..NumResidents |-> <<Pool, 0, "resident", k - 1>>]

People == Range(other_residents) \cup UNION {Members(c) : c \in Classrooms}

\* the two individuals of interest: classrooms[0].students[0] of each school
Sibling(s) == students(classrooms(s)[1])[1]

\* ------------------------------------------------------------------ strings
\* names are sequences of characters, so that Python's "name in exclude_list"
\* on a str argument is the substring test it is
Digits == <<"0", "1", "2", "3", "4", "5", "6", "7", "8", "9">>
RECURSIVE str(_)
str(n) == IF n < 10 THEN <<Digits[n + 1]>> ELSE str(n \div 10) \o <<Digits[(n % 10) + 1]>>

student_ == <<"s", "t", "u", "d", "e", "n", "t", "_">>
teacher_ == <<"t", "e", "a", "c", "h", "e", "r", "_">>
resident == <<"r", "e", "s", "i", "d", "e", "n", "t">>

name(p) ==
    IF p[3] = "student" THEN student_ \o str(p[2]) \o <<"_">> \o str(p[4])
    ELSE IF p[3] = "teacher" THEN teacher_ \o str(p[2]) \o <<"_">> \o str(p[4])
    ELSE resident \o str(p[4])

\* a in b for two strings
str_in(a, b) == \E k \in 0..(Len(b) - Len(a)) : SubSeq(b, k + 1, k + Len(a)) = a

\* the driver's exclude_list argument: the string "student_1_1"
exclude_arg == student_ \o <<"1", "_", "1">>

\* ------------------------------------------------------------------- person
new_person == [days_with_virus |-> 0 - 1, day_infected |-> NeverInfected, family_unit |-> None]

assign_to_family(ps, p, fam) == [ps EXCEPT ![p].family_unit = fam]

is_sick(q) == IF q.days_with_virus > 0 - 1 THEN TRUE ELSE FALSE

tests_positive(q) ==
    IF q.days_with_virus > first_positive_test_day
       /\ q.days_with_virus <= last_positive_test_day
    THEN TRUE ELSE FALSE

\* is_contagious with the last day included
is_contagious_closed(q) ==
    IF q.days_with_virus >= first_contagious_day
       /\ q.days_with_virus <= last_contagious_day
    THEN TRUE ELSE FALSE

is_contagious(q) ==
    IF q.days_with_virus >= first_contagious_day
       /\ q.days_with_virus < last_contagious_day
    THEN TRUE ELSE FALSE

\* sicken without its guard: the timer restarts
sicken_again(ps, p, d) ==
    [ps EXCEPT ![p].days_with_virus = 0, ![p].day_infected = d]

sicken(ps, p, d) ==
    IF ps[p].days_with_virus = 0 - 1
    THEN [ps EXCEPT ![p].days_with_virus = 0, ![p].day_infected = d]
    ELSE ps

\* update_days_sick without its test: the healthy are counted up as well
update_days_sick_unguarded(ps, p) ==
    [ps EXCEPT ![p].days_with_virus = @ + 1]

update_days_sick(ps, p) ==
    IF ps[p].days_with_virus # 0 - 1
    THEN [ps EXCEPT ![p].days_with_virus = @ + 1]
    ELSE ps

\* apply a per-person operation along a list of persons, in list order
RECURSIVE sicken_each(_, _, _, _)
sicken_each(ps, list, k, d) ==
    IF k > Len(list) THEN ps ELSE sicken_each(sicken(ps, list[k], d), list, k + 1, d)

RECURSIVE update_each(_, _, _)
update_each(ps, list, k) ==
    IF k > Len(list) THEN ps ELSE update_each(update_days_sick(ps, list[k]), list, k + 1)

\* ---------------------------------------------------------------- classroom
\* the classroom test with is_sick in place of is_contagious
any_cases_in_classroom(ps, c) ==
    \/ \E k \in DOMAIN students(c) : is_sick(ps[students(c)[k]])
    \/ \E k \in DOMAIN teachers(c) : is_sick(ps[teachers(c)[k]])

any_contagious_cases_in_classroom(ps, c) ==
    \/ \E k \in DOMAIN students(c) : is_contagious(ps[students(c)[k]])
    \/ \E k \in DOMAIN teachers(c) : is_contagious(ps[teachers(c)[k]])

sicken_all(ps, c, d) ==
    sicken_each(sicken_each(ps, students(c), 1, d), teachers(c), 1, d)

classroom_update_days_sick(ps, c) ==
    update_each(update_each(ps, students(c), 1), teachers(c), 1)

\* classroom.assign_to_families: each student pops the head of the list
RECURSIVE assign_to_families(_, _, _, _)
assign_to_families(ps, c, fam_assignments, k) ==
    IF k > Len(students(c)) THEN ps
    ELSE assign_to_families(assign_to_family(ps, students(c)[k], Head(fam_assignments)),
                            c, Tail(fam_assignments), k + 1)

\* classroom.test: t is the classroom's earliest_positive_test_day;
\* test_student is the loop body for one student q
\* the loop body without the "is None" test: the last detection wins
test_student_overwrite(t, q, d) ==
    IF tests_positive(q) THEN d ELSE t

test_student(t, q, d) ==
    IF tests_positive(q)
    THEN (IF t = None THEN d ELSE t)
    ELSE t

RECURSIVE classroom_test(_, _, _, _, _)
classroom_test(ps, t, c, d, k) ==
    IF k > Len(students(c)) THEN t
    ELSE classroom_test(ps, test_student(t, ps[students(c)[k]], d), c, d, k + 1)

\* offline taking effect on the lag day itself
offline_on_lag_day(t, d) ==
    IF t = None THEN FALSE
    ELSE IF d >= t + test_lag THEN TRUE
    ELSE FALSE

offline(t, d) ==
    IF t = None THEN FALSE
    ELSE IF d > t + test_lag THEN TRUE
    ELSE FALSE

\* ------------------------------------------------------------------- school
school_test(ps, ept, s, d) ==
    [c \in Classrooms |->
        IF c \in Range(classrooms(s)) THEN classroom_test(ps, ept[c], c, d, 1) ELSE ept[c]]

RECURSIVE school_update_from(_, _, _)
school_update_from(ps, s, k) ==
    IF k > num_classrooms(s) THEN ps
    ELSE school_update_from(classroom_update_days_sick(ps, classrooms(s)[k]), s, k + 1)
school_update_days_sick(ps, s) == school_update_from(ps, s, 1)

\* spread_virus, first channel: within classrooms, on weekdays, not offline
RECURSIVE spread_in_classrooms(_, _, _, _, _)
spread_in_classrooms(ps, ept, s, d, k) ==
    IF k > num_classrooms(s) THEN ps
    ELSE LET c == classrooms(s)[k]
         IN  spread_in_classrooms(
                 IF ~offline(ept[c], d) /\ any_contagious_cases_in_classroom(ps, c)
                 THEN sicken_all(ps, c, d) ELSE ps,
                 ept, s, d, k + 1)

\* the classroom channel without the weekday test
cohort_channel_every_day(ps, ept, s, d) == spread_in_classrooms(ps, ept, s, d, 1)

cohort_channel(ps, ept, s, d) ==
    IF ~((d % 7) \in {5, 6}) THEN spread_in_classrooms(ps, ept, s, d, 1) ELSE ps

\* spread_virus, second channel: within families, every day
contagious_families(ps, s) ==
    {ps[p].family_unit : p \in {q \in Students(s) : is_contagious(ps[q])}}

family_channel(ps, s, d) ==
    LET cf == contagious_families(ps, s)
    IN  [p \in People |->
            IF p \in Students(s) /\ ps[p].family_unit \in cf
            THEN sicken(ps, p, d)[p] ELSE ps[p]]

\* spread_virus with no classroom ever taken to be offline
spread_virus_ignoring_offline(ps, ept, s, d) ==
    family_channel(cohort_channel(ps, [c \in Classrooms |-> None], s, d), s, d)

spread_virus(ps, ept, s, d) == family_channel(cohort_channel(ps, ept, s, d), s, d)

\* the order in which sicken_xth_person counts the people of a school
RECURSIVE walk_from(_, _)
walk_from(s, k) ==
    IF k > num_classrooms(s) THEN <<>>
    ELSE students(classrooms(s)[k]) \o teachers(classrooms(s)[k]) \o walk_from(s, k + 1)
walk(s) == walk_from(s, 1)

\* sicken_xth_person counting the teachers of a classroom before its students
RECURSIVE walk_teachers_first(_, _)
walk_teachers_first(s, k) ==
    IF k > num_classrooms(s) THEN <<>>
    ELSE teachers(classrooms(s)[k]) \o students(classrooms(s)[k])
             \o walk_teachers_first(s, k + 1)

sicken_xth_person_teachers_first(ps, s, x, exclude_list, d) ==
    IF x \in 0..(Len(walk(s)) - 1)
    THEN LET m == walk_teachers_first(s, 1)[x + 1]
         IN  IF str_in(name(m), exclude_list) THEN [persons |-> ps, ret |-> "False"]
             ELSE IF is_sick(ps[m]) THEN [persons |-> ps, ret |-> "False"]
             ELSE [persons |-> sicken(ps, m, d), ret |-> "True"]
    ELSE [persons |-> ps, ret |-> "None"]

\* sicken_xth_person: the persons afterwards and the value returned
\* ("None": the error message was printed and the function fell off its end)
sicken_xth_person(ps, s, x, exclude_list, d) ==
    IF x \in 0..(Len(walk(s)) - 1)
    THEN LET m == walk(s)[x + 1]
         IN  IF str_in(name(m), exclude_list) THEN [persons |-> ps, ret |-> "False"]
             ELSE IF is_sick(ps[m]) THEN [persons |-> ps, ret |-> "False"]
             ELSE [persons |-> sicken(ps, m, d), ret |-> "True"]
    ELSE [persons |-> ps, ret |-> "None"]

\* assign_to_random_families: the possible outcomes for students_per_family =
\* spf[1]/spf[2].  "reported": the configuration message was printed;
\* "raised": random.randint(0, -1) raised ValueError before any assignment.
RECURSIVE distribute(_, _, _, _)
distribute(ps, s, fam_assignments, k) ==
    IF k > num_classrooms(s) THEN ps
    ELSE distribute(
             assign_to_families(ps, classrooms(s)[k],
                                SubSeq(fam_assignments, 1, class_size(s)), 1),
             s,
             SubSeq(fam_assignments, class_size(s) + 1, Len(fam_assignments)),
             k + 1)

num_families(s, spf) == (total_students(s) * spf[2]) \div spf[1]

\* the extra family ids drawn from 0..nf instead of 0..nf-1
shuffled_assignments_inclusive(n, nf) ==
    LET base == [k \in 1..nf |-> k - 1]
    IN  UNION {{[k \in 1..n |-> (base \o extra)[perm[k]]] : perm \in Permutations(1..n)} :
                  extra \in [1..(n - nf) -> 0..nf]}

shuffled_assignments(n, nf) ==
    LET base == [k \in 1..nf |-> k - 1]
    IN  UNION {{[k \in 1..n |-> (base \o extra)[perm[k]]] : perm \in Permutations(1..n)} :
                  extra \in [1..(n - nf) -> 0..(nf - 1)]}

\* assign_to_random_families without the test of lines 222-224
assign_to_random_families_unchecked(ps, s, spf) ==
    LET n == total_students(s)
        nf == num_families(s, spf)
    IN  IF n - nf > 0 /\ nf = 0
        THEN {[persons |-> ps, outcome |-> "raised"]}
        ELSE {[persons |-> distribute(ps, s, fa, 1), outcome |-> "returned"] :
                 fa \in shuffled_assignments(n, nf)}

assign_to_random_families(ps, s, spf) ==
    IF spf[1] < spf[2]
    THEN {[persons |-> ps, outcome |-> "reported"]}
    ELSE LET n == total_students(s)
             nf == num_families(s, spf)
         IN  IF n - nf > 0 /\ nf = 0
             THEN {[persons |-> ps, outcome |-> "raised"]}
             ELSE {[persons |-> distribute(ps, s, fa, 1), outcome |-> "returned"] :
                      fa \in shuffled_assignments(n, nf)}

\* determine_agg_warnings with a strict second test
determine_agg_warnings_strict(t, day_contagious, no_warning, some_warning, good_warning) ==
    IF t = None
    THEN <<no_warning + 1, some_warning, good_warning>>
    ELSE IF t + test_lag >= day_contagious + first_contagious_day
    THEN <<no_warning + 1, some_warning, good_warning>>
    ELSE IF t + test_lag > day_contagious
    THEN <<no_warning, some_warning + 1, good_warning>>
    ELSE <<no_warning, some_warning, good_warning + 1>>

\* determine_agg_warnings: the three counters after the call
determine_agg_warnings(t, day_contagious, no_warning, some_warning, good_warning) ==
    IF t = None
    THEN <<no_warning + 1, some_warning, good_warning>>
    ELSE IF t + test_lag >= day_contagious + first_contagious_day
    THEN <<no_warning + 1, some_warning, good_warning>>
    ELSE IF t + test_lag >= day_contagious
    THEN <<no_warning, some_warning + 1, good_warning>>
    ELSE <<no_warning, some_warning, good_warning + 1>>

\* ------------------------------------------------------------ trial driver
VARIABLES
    persons,                      \* person id -> the person's fields
    earliest_positive_test_day,   \* classroom -> day or None
    students_per_family,          \* <<numerator, denominator>>
    sim, day, pc,                 \* position of the script
    new_list,                     \* the sampled indices still to be seeded
    i,                            \* the loop variable over new_list
    ret,                          \* what the last seeding call returned
    outside_cases,                \* indices sampled so far in this trial
    S1_infections, S2_infections,
    S1_infections_no_warning, S1_infections_some_warning, S1_infections_good_warning,
    Agg_infections,
    Agg_infections_no_warning, Agg_infections_some_warning, Agg_infections_good_warning

world == <<persons, earliest_positive_test_day>>
tallies ==
    <<S1_infections, S2_infections,
      S1_infections_no_warning, S1_infections_some_warning, S1_infections_good_warning,
      Agg_infections,
      Agg_infections_no_warning, Agg_infections_some_warning, Agg_infections_good_warning>>
vars == <<world, students_per_family, sim, day, pc, new_list, i, ret, outside_cases, tallies>>

fresh_persons == [p \in People |-> new_person]
fresh_classrooms == [c \in Classrooms |-> None]

ZeroTallies ==
    /\ S1_infections = 0 /\ S2_infections = 0
    /\ S1_infections_no_warning = 0
    /\ S1_infections_some_warning = 0
    /\ S1_infections_good_warning = 0
    /\ Agg_infections = 0
    /\ Agg_infections_no_warning = 0
    /\ Agg_infections_some_warning = 0
    /\ Agg_infections_good_warning = 0

Init ==
    /\ persons = fresh_persons
    /\ earliest_positive_test_day = fresh_classrooms
    /\ students_per_family = <<5, 4>>
    /\ sim = 0 /\ day = 0
    /\ pc = IF N_sim > 0 THEN "setup" ELSE "done"
    /\ new_list = <<>>
    /\ i = 0 - 1
    /\ ret = "none yet"
    /\ outside_cases = 0
    /\ ZeroTallies

\* the setup without lines 420-421: the siblings keep their random families
Setup_no_override ==
    /\ pc = "setup"
    /\ \E r1 \in assign_to_random_families(fresh_persons, S1, students_per_family) :
       \E r2 \in assign_to_random_families(r1.persons, S2, students_per_family) :
          IF r1.outcome = "raised" \/ r2.outcome = "raised"
          THEN /\ persons' = fresh_persons
               /\ pc' = "crashed"
          ELSE /\ persons' = r2.persons
               /\ pc' = IF Horizon > 0 THEN "age" ELSE "final"
    /\ earliest_positive_test_day' = fresh_classrooms
    /\ day' = 0
    /\ new_list' = <<>>
    /\ outside_cases' = 0
    /\ UNCHANGED <<students_per_family, sim, i, ret, tallies>>

\* lines 401-421: build the town, assign families, set the siblings apart
Setup ==
    /\ pc = "setup"
    /\ \E r1 \in assign_to_random_families(fresh_persons, S1, students_per_family) :
       \E r2 \in assign_to_random_families(r1.persons, S2, students_per_family) :
          IF r1.outcome = "raised" \/ r2.outcome = "raised"
          THEN /\ persons' = fresh_persons
               /\ pc' = "crashed"
          ELSE /\ persons' = assign_to_family(
                                 assign_to_family(r2.persons, Sibling(S1), 0 - 1),
                                 Sibling(S2), 0 - 2)
               /\ pc' = IF Horizon > 0 THEN "age" ELSE "final"
    /\ earliest_positive_test_day' = fresh_classrooms
    /\ day' = 0
    /\ new_list' = <<>>
    /\ outside_cases' = 0
    /\ UNCHANGED <<students_per_family, sim, i, ret, tallies>>

\* random.sample(pop, n): n distinct indices in some order
samples(n) ==
    {s \in [1..n -> 0..(population - 1)] :
        \A a, b \in 1..n : s[a] = s[b] => a = b}

\* lines 426-443: one more day for everyone who is sick, then today's number
\* of outside cases and the indices they fall on
StartDay ==
    /\ pc = "age"
    /\ persons' = school_update_days_sick(
                      school_update_days_sick(
                          update_each(persons, other_residents, 1), S1), S2)
    /\ \E today_cases \in {new_cases_floor} \cup
                          (IF fraction_part_num > 0 THEN {new_cases_ceil} ELSE {}) :
          /\ outside_cases + today_cases <= MaxOutsideCases
          /\ outside_cases' = outside_cases + today_cases
          /\ IF today_cases > 0
             THEN \E s \in samples(today_cases) : new_list' = s
             ELSE new_list' = <<>>
    /\ pc' = IF new_list' # <<>> THEN "seed" ELSE "spread_S1"
    /\ UNCHANGED <<earliest_positive_test_day, students_per_family, sim, day, i, ret, tallies>>

after_seed == IF Tail(new_list) # <<>> THEN "seed" ELSE "spread_S1"

\* lines 445-446
SeedResident ==
    /\ pc = "seed"
    /\ i' = Head(new_list)
    /\ i' < Len(other_residents)
    /\ persons' = sicken(persons, other_residents[i' + 1], day)
    /\ new_list' = Tail(new_list)
    /\ pc' = after_seed
    /\ UNCHANGED <<earliest_positive_test_day, students_per_family, sim, day, ret,
                   outside_cases, tallies>>

\* lines 448, 452: already_sick = not <the value sicken_xth_person returned>
already_sick(r) == IF r = "True" THEN FALSE ELSE TRUE

\* lines 447-449
SeedS1 ==
    /\ pc = "seed"
    /\ i' = Head(new_list)
    /\ ~(i' < Len(other_residents))
    /\ i' < Len(other_residents) + total_people(S1)
    /\ LET r == sicken_xth_person(persons, S1, i' - Len(other_residents),
                                  exclude_arg, day)
       IN  /\ persons' = r.persons
           /\ ret' = r.ret
    /\ new_list' = Tail(new_list)
    /\ pc' = after_seed
    /\ UNCHANGED <<earliest_positive_test_day, students_per_family, sim, day,
                   outside_cases, tallies>>

\* lines 451-454
SeedS2 ==
    /\ pc = "seed"
    /\ i' = Head(new_list)
    /\ ~(i' < Len(other_residents))
    /\ ~(i' < Len(other_residents) + total_people(S1))
    /\ LET r == sicken_xth_person(persons, S2,
                                  i' - Len(other_residents) - total_people(S1),
                                  exclude_arg, day)
       IN  /\ persons' = r.persons
           /\ ret' = r.ret
    /\ new_list' = Tail(new_list)
    /\ pc' = after_seed
    /\ UNCHANGED <<earliest_positive_test_day, students_per_family, sim, day,
                   outside_cases, tallies>>

\* lines 458-459: one call of spread_virus
SpreadVirus(s) ==
    /\ pc = IF s = S1 THEN "spread_S1" ELSE "spread_S2"
    /\ persons' = spread_virus(persons, earliest_positive_test_day, s, day)
    /\ pc' = IF s = S1 THEN "spread_S2" ELSE "test"
    /\ UNCHANGED <<earliest_positive_test_day, students_per_family, sim, day,
                   new_list, i, ret, outside_cases, tallies>>

\* the testing step with line 465 in force: institution 2 is tested too
Test_both_schools ==
    /\ pc = "test"
    /\ earliest_positive_test_day' =
           IF (day % 7) \in {0, 2}
           THEN school_test(persons,
                            school_test(persons, earliest_positive_test_day, S1, day),
                            S2, day)
           ELSE earliest_positive_test_day
    /\ day' = day + 1
    /\ pc' = IF day + 1 < Horizon THEN "age" ELSE "final"
    /\ UNCHANGED <<persons, students_per_family, sim, new_list, i, ret, outside_cases, tallies>>

\* lines 463-465 and the loop's step to the next day
Test ==
    /\ pc = "test"
    /\ earliest_positive_test_day' =
           IF (day % 7) \in {0, 2}
           THEN school_test(persons, earliest_positive_test_day, S1, day)
           ELSE earliest_positive_test_day
    /\ day' = day + 1
    /\ pc' = IF day + 1 < Horizon THEN "age" ELSE "final"
    /\ UNCHANGED <<persons, students_per_family, sim, new_list, i, ret, outside_cases, tallies>>

\* lines 468-560: the trial's tallies, then the next trial
\* the test of lines 469, 493 against the last simulated day instead of N_days
infected_in_loop(s) == persons[Sibling(s)].day_infected <= Horizon

infected_in_horizon(s) == persons[Sibling(s)].day_infected <= N_days
day_contagious_of(s) == persons[Sibling(s)].day_infected + first_contagious_day
min(a, b) == IF b < a THEN b ELSE a

\* lines 469-491: the S1 counters <<no, some, good>> after the trial
S1_classification ==
    LET t == earliest_positive_test_day[classrooms(S1)[1]]
        day_contagious == persons[Sibling(S1)].day_infected + first_contagious_day
    IN  IF ~infected_in_horizon(S1)
        THEN <<S1_infections_no_warning, S1_infections_some_warning,
               S1_infections_good_warning>>
        ELSE IF t = None
        THEN <<S1_infections_no_warning + 1, S1_infections_some_warning,
               S1_infections_good_warning>>
        ELSE IF t + test_lag >= day_contagious + first_contagious_day
        THEN <<S1_infections_no_warning + 1, S1_infections_some_warning,
               S1_infections_good_warning>>
        ELSE IF t + test_lag >= day_contagious
        THEN <<S1_infections_no_warning, S1_infections_some_warning + 1,
               S1_infections_good_warning>>
        ELSE <<S1_infections_no_warning, S1_infections_some_warning,
               S1_infections_good_warning + 1>>

\* the aggregate classification reading institution 2's test record
Agg_classification_S2_record ==
    LET t == earliest_positive_test_day[classrooms(S2)[1]]
        both == min(day_contagious_of(S1), day_contagious_of(S2))
    IN  IF infected_in_horizon(S1) /\ infected_in_horizon(S2)
        THEN determine_agg_warnings(t, both, Agg_infections_no_warning,
                 Agg_infections_some_warning, Agg_infections_good_warning)
        ELSE IF infected_in_horizon(S1)
        THEN determine_agg_warnings(t, day_contagious_of(S1), Agg_infections_no_warning,
                 Agg_infections_some_warning, Agg_infections_good_warning)
        ELSE IF infected_in_horizon(S2)
        THEN determine_agg_warnings(t, day_contagious_of(S2), Agg_infections_no_warning,
                 Agg_infections_some_warning, Agg_infections_good_warning)
        ELSE <<Agg_infections_no_warning, Agg_infections_some_warning,
               Agg_infections_good_warning>>

\* lines 509-560: the aggregate counters <<no, some, good>> after the trial

Agg_classification ==
    IF infected_in_horizon(S1) /\ infected_in_horizon(S2)
    THEN determine_agg_warnings(
             earliest_positive_test_day[classrooms(S1)[1]],
             min(day_contagious_of(S1), day_contagious_of(S2)),
             Agg_infections_no_warning, Agg_infections_some_warning,
             Agg_infections_good_warning)
    ELSE IF infected_in_horizon(S1)
    THEN determine_agg_warnings(
             earliest_positive_test_day[classrooms(S1)[1]], day_contagious_of(S1),
             Agg_infections_no_warning, Agg_infections_some_warning,
             Agg_infections_good_warning)
    ELSE IF infected_in_horizon(S2)
    THEN determine_agg_warnings(
             earliest_positive_test_day[classrooms(S1)[1]], day_contagious_of(S2),
             Agg_infections_no_warning, Agg_infections_some_warning,
             Agg_infections_good_warning)
    ELSE <<Agg_infections_no_warning, Agg_infections_some_warning,
           Agg_infections_good_warning>>

\* the tallies with Agg_infections counted only when both were infected
FinalResults_agg_both ==
    /\ pc = "final"
    /\ S1_infections' = S1_infections + (IF infected_in_horizon(S1) THEN 1 ELSE 0)
    /\ S1_infections_no_warning' = S1_classification[1]
    /\ S1_infections_some_warning' = S1_classification[2]
    /\ S1_infections_good_warning' = S1_classification[3]
    /\ S2_infections' = S2_infections + (IF infected_in_horizon(S2) THEN 1 ELSE 0)
    /\ Agg_infections' =
           Agg_infections +
           (IF infected_in_horizon(S1) /\ infected_in_horizon(S2) THEN 1 ELSE 0)
    /\ Agg_infections_no_warning' = Agg_classification[1]
    /\ Agg_infections_some_warning' = Agg_classification[2]
    /\ Agg_infections_good_warning' = Agg_classification[3]
    /\ sim' = sim + 1
    /\ pc' = IF sim + 1 < N_sim THEN "setup" ELSE "done"
    /\ UNCHANGED <<world, students_per_family, day, new_list, i, ret, outside_cases>>

FinalResults ==
    /\ pc = "final"
    /\ S1_infections' = S1_infections + (IF infected_in_horizon(S1) THEN 1 ELSE 0)
    /\ S1_infections_no_warning' = S1_classification[1]
    /\ S1_infections_some_warning' = S1_classification[2]
    /\ S1_infections_good_warning' = S1_classification[3]
    /\ S2_infections' = S2_infections + (IF infected_in_horizon(S2) THEN 1 ELSE 0)
    /\ Agg_infections' =
           Agg_infections +
           (IF infected_in_horizon(S1) \/ infected_in_horizon(S2) THEN 1 ELSE 0)
    /\ Agg_infections_no_warning' = Agg_classification[1]
    /\ Agg_infections_some_warning' = Agg_classification[2]
    /\ Agg_infections_good_warning' = Agg_classification[3]
    /\ sim' = sim + 1
    /\ pc' = IF sim + 1 < N_sim THEN "setup" ELSE "done"
    /\ UNCHANGED <<world, students_per_family, day, new_list, i, ret, outside_cases>>

Next ==
    \/ Setup
    \/ StartDay
    \/ SeedResident
    \/ SeedS1
    \/ SeedS2
    \/ SpreadVirus(S1)
    \/ SpreadVirus(S2)
    \/ Test
    \/ FinalResults

Spec == Init /\ [][Next]_vars

\* ------------------------------------------------- calls on bounded inputs
\* A second specification applies single operations to inputs drawn from
\* bounded sets: the days of a person's life up to timer MaxTimer, the
\* trial-end readings, the students_per_family setting, and one day's
\* sample of up to MaxDayCases indices going through the seeding loop.
MaxTimer == 20
MaxSchoolDay == 7
MaxDayCases == 3
SpfInputs == {<<1, 2>>, <<1, 1>>, <<5, 4>>, <<2, 1>>, <<3, 1>>}
Days == 0..(Horizon - 1)

at_trial_end(d) ==
    [days_with_virus |-> IF d = NeverInfected THEN 0 - 1 ELSE Horizon - 1 - d,
     day_infected |-> d, family_unit |-> None]

InitUnit ==
    /\ sim = 0 /\ i = 0 - 1 /\ ret = "none yet"
    /\ outside_cases = 0
    /\ ZeroTallies
    /\ \/ /\ pc = "unit_person"
          /\ new_list = <<>>
          /\ persons = fresh_persons
          /\ day = 0
          /\ earliest_positive_test_day = fresh_classrooms
          /\ students_per_family = <<5, 4>>
       \/ /\ pc = "final"
          /\ new_list = <<>>
          /\ \E d1, d2 \in Days \cup {NeverInfected} :
                persons = [fresh_persons EXCEPT ![Sibling(S1)] = at_trial_end(d1),
                                                ![Sibling(S2)] = at_trial_end(d2)]
          /\ \E t \in Days \cup {None} :
                earliest_positive_test_day =
                    [fresh_classrooms EXCEPT ![classrooms(S1)[1]] = t]
          /\ day = Horizon
          /\ students_per_family = <<5, 4>>
       \/ /\ pc = "unit_families"
          /\ new_list = <<>>
          /\ persons = fresh_persons
          /\ earliest_positive_test_day = fresh_classrooms
          /\ day = 0
          /\ students_per_family \in SpfInputs
       \/ /\ pc = "unit_school"
          /\ new_list = <<>>
          /\ persons \in {r.persons :
                             r \in assign_to_random_families(fresh_persons, S1, <<5, 4>>)}
          /\ earliest_positive_test_day = fresh_classrooms
          /\ day = 0
          /\ students_per_family = <<5, 4>>
       \/ /\ pc = "seed"
          /\ new_list \in UNION {samples(n) : n \in 1..MaxDayCases}
          /\ persons = fresh_persons
          /\ earliest_positive_test_day = fresh_classrooms
          /\ day = 0
          /\ students_per_family = <<5, 4>>

\* person.sicken(day) on one person
PersonSicken ==
    /\ pc = "unit_person"
    /\ persons' = sicken(persons, Sibling(S1), day)
    /\ UNCHANGED <<earliest_positive_test_day, students_per_family, sim, day, pc,
                   new_list, i, ret, outside_cases, tallies>>

\* person.update_days_sick() on one person, a day later
PersonUpdateDaysSick ==
    /\ pc = "unit_person"
    /\ persons[Sibling(S1)].days_with_virus < MaxTimer
    /\ day < MaxTimer
    /\ persons' = update_days_sick(persons, Sibling(S1))
    /\ day' = day + 1
    /\ UNCHANGED <<earliest_positive_test_day, students_per_family, sim, pc,
                   new_list, i, ret, outside_cases, tallies>>

\* school.assign_to_random_families() on its own
AssignFamilies(s) ==
    /\ pc = "unit_families"
    /\ \E r \in assign_to_random_families(persons, s, students_per_family) :
          /\ persons' = r.persons
          /\ ret' = r.outcome
    /\ pc' = IF s = S1 THEN "assigned_S1" ELSE "assigned_S2"
    /\ UNCHANGED <<earliest_positive_test_day, students_per_family, sim, day,
                   new_list, i, outside_cases, tallies>>

\* The methods of one school, S1_school with its families assigned, called
\* in any order on the days 0..MaxSchoolDay.
\* S1_school.sicken_xth_person(x, "student_1_1", day) with x in range
SchoolSeed ==
    /\ pc = "unit_school"
    /\ \E x \in 0..(total_people(S1) - 1) :
          LET r == sicken_xth_person(persons, S1, x, exclude_arg, day)
          IN  /\ persons' = r.persons
              /\ ret' = r.ret
    /\ UNCHANGED <<earliest_positive_test_day, students_per_family, sim, day, pc,
                   new_list, i, outside_cases, tallies>>

\* S1_school.sicken_xth_person(x, "student_1_1", day) with x >= total_people()
SchoolSeedOutOfRange ==
    /\ pc = "unit_school"
    /\ \E x \in total_people(S1)..(total_people(S1) + 1) :
          LET r == sicken_xth_person(persons, S1, x, exclude_arg, day)
          IN  /\ persons' = r.persons
              /\ ret' = r.ret
    /\ UNCHANGED <<earliest_positive_test_day, students_per_family, sim, day, pc,
                   new_list, i, outside_cases, tallies>>

\* S1_school.update_days_sick() at the start of the next day
SchoolNextDay ==
    /\ pc = "unit_school"
    /\ day < MaxSchoolDay
    /\ persons' = school_update_days_sick(persons, S1)
    /\ day' = day + 1
    /\ UNCHANGED <<earliest_positive_test_day, students_per_family, sim, pc,
                   new_list, i, ret, outside_cases, tallies>>

\* S1_school.spread_virus(day)
SchoolSpread ==
    /\ pc = "unit_school"
    /\ persons' = spread_virus(persons, earliest_positive_test_day, S1, day)
    /\ UNCHANGED <<earliest_positive_test_day, students_per_family, sim, day, pc,
                   new_list, i, ret, outside_cases, tallies>>

\* S1_school.test(day)
SchoolTest ==
    /\ pc = "unit_school"
    /\ earliest_positive_test_day' =
           school_test(persons, earliest_positive_test_day, S1, day)
    /\ UNCHANGED <<persons, students_per_family, sim, day, pc,
                   new_list, i, ret, outside_cases, tallies>>

NextUnit ==
    \/ PersonSicken
    \/ PersonUpdateDaysSick
    \/ AssignFamilies(S1)
    \/ AssignFamilies(S2)
    \/ FinalResults
    \/ SchoolSeed
    \/ SchoolSeedOutOfRange
    \/ SchoolNextDay
    \/ SchoolSpread
    \/ SchoolTest
    \/ SeedResident
    \/ SeedS1
    \/ SeedS2

SpecUnit == InitUnit /\ [][NextUnit]_vars

\* ------------------------------------------------------------ properties
\* the claims' own vocabulary, written without the operators above
timer(p) == persons[p].days_with_virus
in_contagious_window(t) == first_contagious_day <= t /\ t < last_contagious_day
in_positive_window(t) == first_positive_test_day < t /\ t <= last_positive_test_day

\* the x-th person of school s: classrooms in order, students then teachers
member_at(s, x) ==
    LET per == class_size(s) + teachers_per_class(s)
        number == (x \div per) + 1
        r == x % per
    IN  IF r < class_size(s) THEN <<s, number, "student", r>>
        ELSE <<s, number, "teacher", r - class_size(s)>>

\* where the indices of school s begin in the population index space
first_index(s) ==
    IF s = S1 THEN PoolSize
    ELSE PoolSize + S1_classes_in_school * (S1_class_size + S1_teachers)

\* the person whose name is the string "student_1_1"
named_student_1_1(p) == p[2] = 1 /\ p[3] = "student" /\ p[4] = 1

SeedSchool(s) == IF s = S1 THEN SeedS1 ELSE SeedS2

\* C1: seeding by index never sickens institution 1's individual of
\* interest: a sampled index that resolves to S1_school.classrooms[0]
\* .students[0] makes sicken_xth_person return False and leaves that
\* individual's days_with_virus and day_infected unchanged.
C1_SiblingNeverSeeded ==
    [][(SeedS1 /\ Head(new_list) = first_index(S1))
          => /\ ret' = "False"
             /\ persons'[Sibling(S1)] = persons[Sibling(S1)]]_vars

\* C2: classroom.test(day) sets an unset earliest_positive_test_day to day
\* whenever any member of the classroom, student or teacher, tests positive.
C2_TestCoversStaff ==
    [][(Test /\ (day % 7) \in {0, 2})
          => \A c \in Range(classrooms(S1)) :
                (/\ earliest_positive_test_day[c] = None
                 /\ \E m \in Members(c) : in_positive_window(timer(m)))
                => earliest_positive_test_day'[c] = day]_vars

\* C3: within a trial every person's days_with_virus starts at -1, moves to
\* 0 at most once (with day_infected set to that day), and from then on
\* grows by exactly 1 at each day start and is changed by nothing else;
\* day_infected of a sick person never changes.
C3_MonotonicTimer ==
    [][IF Setup
       THEN \A p \in People : pc' = "crashed" \/ persons'[p].days_with_virus = 0 - 1
       ELSE \A p \in People :
               LET a == persons[p].days_with_virus
                   b == persons'[p].days_with_virus
               IN  IF a = 0 - 1
                   THEN \/ b = 0 - 1 /\ persons'[p].day_infected = NeverInfected
                        \/ b = 0 /\ persons'[p].day_infected = day
                   ELSE /\ b = (IF StartDay THEN a + 1 ELSE a)
                        /\ persons'[p].day_infected = persons[p].day_infected]_vars

\* C3 witness: cohort spread has just called sicken on a contagious member
\* and on a healthy one of the same classroom
C3_Witness ==
    /\ pc = "spread_S2"
    /\ \E c \in Classrooms : \E m, n \in Members(c) :
          /\ timer(m) >= first_contagious_day
          /\ timer(n) = 0 /\ persons[n].day_infected = day

\* C4: once a classroom's earliest_positive_test_day is a day, no later
\* step of the trial changes it, and it is set only to the current day.
C4_FirstDetectionWins ==
    [][~Setup
          => \A c \in Classrooms :
                IF earliest_positive_test_day[c] # None
                THEN earliest_positive_test_day'[c] = earliest_positive_test_day[c]
                ELSE earliest_positive_test_day'[c] \in {None, day}]_vars

\* C4 witness: a later testing day has just passed over a classroom that was
\* detected earlier and still has a student who tests positive
C4_Witness ==
    /\ pc = "age"
    /\ ((day - 1) % 7) \in {0, 2}
    /\ \E c \in Range(classrooms(S1)) :
          /\ earliest_positive_test_day[c] # None
          /\ earliest_positive_test_day[c] < day - 1
          /\ \E k \in DOMAIN students(c) : in_positive_window(timer(students(c)[k]))

\* C5: is_contagious() holds exactly for first_contagious_day <= t <
\* last_contagious_day, tests_positive() exactly for first_positive_test_day
\* < t <= last_positive_test_day, is_sick() exactly for t >= 0.
C5_PredicateWindows ==
    \A p \in People :
        /\ is_contagious(persons[p]) = in_contagious_window(timer(p))
        /\ tests_positive(persons[p]) = in_positive_window(timer(p))
        /\ is_sick(persons[p]) = (timer(p) >= 0)
        /\ timer(p) = 0 - 1 => ~is_contagious(persons[p]) /\ ~tests_positive(persons[p])

\* C5 witness: a timer updated to the last positive-test day, past the
\* contagious window
C5_Witness ==
    /\ pc = "unit_person"
    /\ timer(Sibling(S1)) = last_positive_test_day
    /\ day = last_positive_test_day + 1
    /\ persons[Sibling(S1)].day_infected = 1
    /\ tests_positive(persons[Sibling(S1)])
    /\ ~is_contagious(persons[Sibling(S1)])

\* the bin of a pair (T, day_contagious)
bin(t, day_contagious) ==
    IF t = None \/ t + test_lag >= day_contagious + first_contagious_day THEN "no"
    ELSE IF day_contagious <= t + test_lag THEN "some"
    ELSE "good"

plus_one(triple, b) ==
    <<triple[1] + (IF b = "no" THEN 1 ELSE 0),
      triple[2] + (IF b = "some" THEN 1 ELSE 0),
      triple[3] + (IF b = "good" THEN 1 ELSE 0)>>

S1_triple ==
    <<S1_infections_no_warning, S1_infections_some_warning, S1_infections_good_warning>>
Agg_triple ==
    <<Agg_infections_no_warning, Agg_infections_some_warning, Agg_infections_good_warning>>

T1 == earliest_positive_test_day[<<S1, 1>>]
infected_day(s) == persons[<<s, 1, "student", 0>>].day_infected
counted(s) == infected_day(s) <= N_days

\* C6: both the S1 classification and determine_agg_warnings put the pair
\* (T, day_contagious) they are given in exactly one bin (no / some / good
\* warning, by the three tests on T + test_lag) and add exactly 1 to exactly
\* that counter.
C6_ExactlyOneBin ==
    [][FinalResults
          => /\ counted(S1) =>
                    S1_triple' = plus_one(S1_triple,
                                          bin(T1, infected_day(S1) + first_contagious_day))
             /\ (counted(S1) \/ counted(S2)) =>
                    \E d \in {infected_day(s) : s \in {z \in Schools : counted(z)}} :
                        Agg_triple' = plus_one(Agg_triple,
                                               bin(T1, d + first_contagious_day))]_vars

\* C6 witness: T = 5, test_lag = 1, day_contagious = 4 was tallied as some
\* warning by both classifications
C6_Witness ==
    /\ sim = 1
    /\ T1 = 5 /\ infected_day(S1) = 1 /\ infected_day(S2) = NeverInfected
    /\ S1_triple = <<0, 1, 0>>
    /\ Agg_triple = <<0, 1, 0>>

\* C7: the aggregate bin is computed from institution 1's
\* classrooms[0].earliest_positive_test_day: with both individuals infected
\* in the horizon day_contagious is the smaller of the two, with one it is
\* that one's own, with none no aggregate warning counter changes.
C7_AggregateUsesS1Record ==
    [][FinalResults
          => LET dc1 == infected_day(S1) + first_contagious_day
                 dc2 == infected_day(S2) + first_contagious_day
             IN  IF counted(S1) /\ counted(S2)
                 THEN Agg_triple' = plus_one(Agg_triple,
                                             bin(T1, IF dc1 <= dc2 THEN dc1 ELSE dc2))
                 ELSE IF counted(S1)
                 THEN Agg_triple' = plus_one(Agg_triple, bin(T1, dc1))
                 ELSE IF counted(S2)
                 THEN Agg_triple' = plus_one(Agg_triple, bin(T1, dc2))
                 ELSE Agg_triple' = Agg_triple]_vars

\* C7 witness: only institution 2's individual was infected in the horizon
\* and institution 1's test record gave the trial a good warning
C7_Witness ==
    /\ pc = "done"
    /\ ~counted(S1) /\ counted(S2)
    /\ T1 # None
    /\ Agg_triple = <<0, 0, 1>>

\* the family invariant of C8 for school s
family_invariant(s) ==
    LET n == S1_classes_in_school * S1_class_size
        m == S2_classes_in_school * S2_class_size
        total == IF s = S1 THEN n ELSE m
        nf == (total * students_per_family[2]) \div students_per_family[1]
    IN  /\ \A p \in Students(s) : persons[p].family_unit \in 0..(nf - 1)
        /\ {persons[p].family_unit : p \in Students(s)} = 0..(nf - 1)
        /\ \A c \in Range(classrooms(s)) :
              Cardinality({p \in Range(students(c)) : persons[p].family_unit # None})
                  = class_size(s)

assigned(s) == pc = (IF s = S1 THEN "assigned_S1" ELSE "assigned_S2")
spf_at_least_1 == students_per_family[1] >= students_per_family[2]

\* C8 as stated: after assign_to_random_families() with students_per_family
\* >= 1 every student has a family unit in [0, num_families), every classroom
\* is fully assigned, and the family units in use are exactly
\* {0, ..., num_families - 1}.
C8_FamilyInvariant ==
    \A s \in Schools : (assigned(s) /\ spf_at_least_1) => family_invariant(s)

\* C8 as amended: the same, for students_per_family >= 1 with num_families
\* >= 1 (students_per_family no larger than the number of students).
C8_FamilyInvariantAmended ==
    \A s \in Schools :
        (/\ assigned(s)
         /\ spf_at_least_1
         /\ students_per_family[1] <= total_students(s) * students_per_family[2])
        => ret = "returned" /\ family_invariant(s)

\* C8 witness: an assignment at 1.25 students per family in which two
\* students share a family
C8_Witness ==
    /\ assigned(S1)
    /\ students_per_family = <<5, 4>>
    /\ ret = "returned"
    /\ \E p, q \in Students(S1) :
          p # q /\ persons[p].family_unit = persons[q].family_unit

\* C9: on a day with day mod 7 in {5, 6} spread_virus infects nobody through
\* the classroom, and sickens exactly the healthy students whose family unit
\* is that of a contagious student of the school.
C9_WeekendFamilyOnly ==
    [][\A s \in Schools :
          (SpreadVirus(s) /\ (day % 7) \in {5, 6})
          => LET cf == {persons[q].family_unit :
                           q \in {z \in Students(s) : in_contagious_window(timer(z))}}
             IN  \A p \in People :
                    IF p \in Students(s) /\ persons[p].family_unit \in cf
                       /\ timer(p) = 0 - 1
                    THEN persons'[p] = [persons[p] EXCEPT !.days_with_virus = 0,
                                                          !.day_infected = day]
                    ELSE persons'[p] = persons[p]]_vars

\* C9 witness: a weekend spread has infected a student through the family
\* while a member of a classroom that is not offline and has a contagious
\* member stayed healthy
C9_Witness ==
    /\ pc = "spread_S2"
    /\ (day % 7) \in {5, 6}
    /\ \E p \in Students(S1) : timer(p) = 0 /\ persons[p].day_infected = day
    /\ \E c \in Range(classrooms(S1)) :
          /\ ~(earliest_positive_test_day[c] # None
               /\ day > earliest_positive_test_day[c] + test_lag)
          /\ \E m, n \in Members(c) :
                in_contagious_window(timer(m)) /\ timer(n) = 0 - 1

\* C10: sicken_xth_person with an in-range x resolves x in flattened order;
\* for a member already sick or excluded by name it returns False and
\* changes nobody; otherwise it sets that member's timer to 0 and
\* day_infected to day, returns True, and changes nobody else.
C10_SeedXthPerson ==
    [][\A s \in Schools :
          SeedSchool(s)
          => LET x == Head(new_list) - first_index(s)
                 m == member_at(s, x)
             IN  /\ x \in 0..(num_classrooms(s)
                              * (class_size(s) + teachers_per_class(s)) - 1)
                 /\ IF named_student_1_1(m) \/ timer(m) >= 0
                    THEN ret' = "False" /\ persons' = persons
                    ELSE /\ ret' = "True"
                         /\ persons' = [persons EXCEPT ![m].days_with_virus = 0,
                                                       ![m].day_infected = day]]_vars

\* C10 witness: the last seeding call fell on a member who was already sick
\* and is not the excluded one
C10_Witness ==
    /\ pc = "spread_S1"
    /\ ret = "False"
    /\ i >= first_index(S1)
    /\ LET s == IF i >= first_index(S2) THEN S2 ELSE S1
           m == member_at(s, i - first_index(s))
       IN  /\ ~named_student_1_1(m)
           /\ timer(m) > 0
           /\ persons[m].day_infected < day

\* ---- vocabulary of the transmission claims
weekday(d) == ~((d % 7) \in {5, 6})
classroom_of(p) == <<p[1], p[2]>>
SchoolMembers(s) == UNION {Members(c) : c \in Range(classrooms(s))}
isolated(c, d) ==
    /\ earliest_positive_test_day[c] # None
    /\ d > earliest_positive_test_day[c] + test_lag
newly_infected(p) == timer(p) = 0 - 1 /\ persons'[p].days_with_virus = 0
\* p sits in a classroom that meets today, with a contagious member
cohort_exposed(p) ==
    /\ weekday(day)
    /\ ~isolated(classroom_of(p), day)
    /\ \E m \in Members(classroom_of(p)) : in_contagious_window(timer(m))
\* q is a contagious student of p's school and family
family_source(p, q) ==
    /\ p[3] = "student" /\ q \in Students(p[1])
    /\ in_contagious_window(timer(q))
    /\ persons[q].family_unit = persons[p].family_unit

siblings_apart ==
    /\ persons[Sibling(S1)].family_unit = 0 - 1
    /\ persons[Sibling(S2)].family_unit = 0 - 2
    /\ \A p \in People \ {Sibling(S1), Sibling(S2)} :
          /\ persons[p].family_unit # 0 - 1
          /\ persons[p].family_unit # 0 - 2
          /\ p[3] = "student" /\ p[1] # Pool => persons[p].family_unit >= 0

\* C11: from the override on and for the rest of the trial the two
\* individuals of interest hold the family units -1 and -2, which no other
\* member of either school holds (random assignment gives ids >= 0); so
\* every infection of an individual of interest in spread_virus comes from
\* the classroom, and every family infection of another student has a
\* contagious source that is not an individual of interest.
C11_SiblingsOwnFamilies ==
    [][/\ ~(pc' \in {"setup", "crashed"}) => siblings_apart'
       /\ \A s \in Schools :
             SpreadVirus(s)
             => \A p \in SchoolMembers(s) :
                   (newly_infected(p) /\ ~cohort_exposed(p))
                   => /\ p # Sibling(s)
                      /\ \E q \in Students(s) \ {Sibling(s)} : family_source(p, q)]_vars

\* C11 witness: a weekend spread_virus has run while institution 1's
\* individual of interest was contagious, and a student of that school is
\* still healthy
C11_Witness ==
    /\ pc = "spread_S2"
    /\ ~weekday(day)
    /\ in_contagious_window(timer(Sibling(S1)))
    /\ \E p \in Students(S1) : timer(p) = 0 - 1

\* C12: in every state of a trial no classroom of institution 2 has an
\* earliest_positive_test_day, so none is ever offline on any day; only
\* institution 1 is tested, and only on days with day mod 7 in {0, 2}, so
\* an earliest_positive_test_day of institution 1 is such a day (and a day
\* the trial has completed).
C12_OnlyS1Tested ==
    /\ \A c \in Range(classrooms(S2)) :
          /\ earliest_positive_test_day[c] = None
          /\ \A d \in 0..Horizon : ~isolated(c, d) /\ ~offline(earliest_positive_test_day[c], d)
    /\ \A c \in Range(classrooms(S1)) :
          earliest_positive_test_day[c] # None
          => /\ (earliest_positive_test_day[c] % 7) \in {0, 2}
             /\ earliest_positive_test_day[c] \in 0..(day - 1)

\* C12 witness: a testing day has just ended with a student of institution
\* 2 in the positive-test window and institution 1's classroom detected
C12_Witness ==
    /\ pc = "age"
    /\ ((day - 1) % 7) \in {0, 2}
    /\ \E p \in Students(S2) : in_positive_window(timer(p))
    /\ T1 # None

buffer_day(d) == N_days < d /\ d < N_days + 2 * first_contagious_day

\* C13: at the end of a trial an individual of interest is counted as
\* infected exactly when day_infected <= N_days.  One first infected on a
\* buffer day, or never, adds nothing to S1_infections / S2_infections, to
\* Agg_infections or to any warning counter: the S1 warning counters stay,
\* and the aggregate ones move only for the other individual, by that
\* individual's own day.
C13_BufferDaysNotCounted ==
    [][FinalResults
          => /\ S1_infections' = S1_infections + (IF infected_day(S1) <= N_days THEN 1 ELSE 0)
             /\ S2_infections' = S2_infections + (IF infected_day(S2) <= N_days THEN 1 ELSE 0)
             /\ \A s \in Schools :
                   LET o == IF s = S1 THEN S2 ELSE S1
                   IN  (buffer_day(infected_day(s)) \/ infected_day(s) = NeverInfected)
                       => /\ s = S1 => S1_infections' = S1_infections /\ S1_triple' = S1_triple
                          /\ s = S2 => S2_infections' = S2_infections
                          /\ IF infected_day(o) <= N_days
                             THEN /\ Agg_infections' = Agg_infections + 1
                                  /\ Agg_triple' =
                                         plus_one(Agg_triple,
                                                  bin(T1, infected_day(o) + first_contagious_day))
                             ELSE /\ Agg_infections' = Agg_infections
                                  /\ Agg_triple' = Agg_triple]_vars

\* C13 witness: a trial has ended in which institution 1's individual of
\* interest was first infected on a buffer day, the other one never, and no
\* counter moved
C13_Witness ==
    /\ pc = "done"
    /\ buffer_day(infected_day(S1))
    /\ infected_day(S2) = NeverInfected
    /\ S1_infections = 0 /\ S2_infections = 0 /\ Agg_infections = 0
    /\ S1_triple = <<0, 0, 0>> /\ Agg_triple = <<0, 0, 0>>

\* a call of spread_virus(day) on school s, in the trial or on its own
spread_step(s) == SpreadVirus(s) \/ (s = S1 /\ SchoolSpread)

infected_today(p) == [persons[p] EXCEPT !.days_with_virus = 0, !.day_infected = day]

\* C14: a classroom with earliest_positive_test_day = T is offline on day d
\* exactly when d > T + test_lag, and never when T is None.  spread_virus(d)
\* infects nobody through a classroom that is offline on day d (whoever it
\* newly infects there has a contagious family source); on a weekday on
\* which the classroom is not offline, the lag day T + test_lag included, a
\* classroom with a contagious member has all its healthy members infected.
C14_OfflineAfterLag ==
    [][/\ \A c \in Classrooms : \A d \in 0..Horizon :
             offline(earliest_positive_test_day[c], d)
                 = (/\ earliest_positive_test_day[c] # None
                    /\ d > earliest_positive_test_day[c] + test_lag)
       /\ \A s \in Schools :
             spread_step(s)
             => \A c \in Range(classrooms(s)) :
                   IF /\ weekday(day)
                      /\ ~isolated(c, day)
                      /\ \E m \in Members(c) : in_contagious_window(timer(m))
                   THEN \A p \in Members(c) :
                           persons'[p] = IF timer(p) = 0 - 1 THEN infected_today(p)
                                         ELSE persons[p]
                   ELSE \A p \in Members(c) :
                           newly_infected(p)
                           => \E q \in Students(s) : family_source(p, q)]_vars

\* C14 witness: a weekday on which a classroom detected on day T is offline
\* (day > T + test_lag) with a contagious student, a healthy student outside
\* that student's family and a healthy teacher
C14_Witness ==
    /\ pc = "unit_school"
    /\ weekday(day)
    /\ T1 # None /\ day = T1 + test_lag + 1
    /\ \E m, p \in Students(S1) :
          /\ in_contagious_window(timer(m))
          /\ timer(p) = 0 - 1
          /\ \A q \in Students(S1) : ~family_source(p, q)
    /\ \E p \in Range(teachers(<<S1, 1>>)) : timer(p) = 0 - 1

\* the persons after spread_virus(day) on school s, told from the persons
\* before it: the healthy members of a meeting classroom with a contagious
\* member, and the healthy students with a contagious student in the family
after_spread(s) ==
    [p \in People |->
        IF /\ timer(p) = 0 - 1
           /\ p \in SchoolMembers(s)
           /\ (cohort_exposed(p) \/ \E q \in Students(s) : family_source(p, q))
        THEN infected_today(p)
        ELSE persons[p]]

\* C15: a day step ages every timer, then seeds the outside cases, then
\* spreads (classroom, then family) in each school, then tests, and then
\* the next day begins.  Somebody first infected on a day transmits nothing
\* on that day: the sources of a day's classroom and family infections are
\* the members contagious before the spread, whose day_infected <= day -
\* first_contagious_day, and the family set is the same read before or
\* after the classroom channel.
C15_DayStepOrder ==
    [][/\ pc = "age"
          => /\ pc' \in {"seed", "spread_S1"}
             /\ day' = day
             /\ \A p \in People :
                   persons'[p].days_with_virus
                       = IF timer(p) = 0 - 1 THEN 0 - 1 ELSE timer(p) + 1
       /\ pc = "seed"
          => /\ pc' \in {"seed", "spread_S1"}
             /\ day' = day
             /\ earliest_positive_test_day' = earliest_positive_test_day
             /\ \A p \in People : persons'[p] \in {persons[p], infected_today(p)}
       /\ pc = "spread_S1"
          => pc' = "spread_S2" /\ day' = day /\ persons' = after_spread(S1)
       /\ pc = "spread_S2"
          => pc' = "test" /\ day' = day /\ persons' = after_spread(S2)
       /\ pc = "test"
          => pc' \in {"age", "final"} /\ day' = day + 1 /\ persons' = persons
       /\ pc \in {"spread_S1", "spread_S2"}
          => \A m \in People :
                /\ in_contagious_window(timer(m))
                   => persons[m].day_infected <= day - first_contagious_day
                /\ persons[m].day_infected = day
                   => timer(m) = 0 /\ ~in_contagious_window(timer(m))]_vars

\* C15 witness: on a weekday a member of a classroom that is not offline
\* was first infected today, spread_virus has run on that school, and a
\* classmate is still healthy
C15_Witness ==
    /\ pc = "spread_S2"
    /\ weekday(day)
    /\ ~isolated(<<S1, 1>>, day)
    /\ \E m, p \in Members(<<S1, 1>>) :
          /\ persons[m].day_infected = day /\ timer(m) = 0
          /\ timer(p) = 0 - 1

\* C16: sicken_xth_person called with x >= total_people() sickens no one
\* and gives the caller an error outcome: a value that is neither True nor
\* the normal "no effect" False, and that the caller's already_sick = not
\* <value> does not turn into the already_sick of an ordinary already-sick
\* or excluded seeding.
C16_OutOfRangeSurfaced ==
    [][SchoolSeedOutOfRange
          => /\ persons' = persons
             /\ ~(ret' \in {"True", "False"})
             /\ already_sick(ret') # already_sick("False")]_vars

\* C17: with students_per_family < 1, assign_to_random_families() reports
\* the configuration error and returns with the family_unit of every member
\* of the school as it was: nobody is assigned, not even in part.
C17_ConfigErrorNoAssignment ==
    [][\A s \in Schools :
          (AssignFamilies(s) /\ students_per_family[1] < students_per_family[2])
          => /\ ret' = "reported"
             /\ \A p \in People : persons'[p].family_unit = persons[p].family_unit
             /\ \A p \in SchoolMembers(s) : persons'[p].family_unit = None]_vars

\* C17 witness: the call has returned at half a student per family
C17_Witness ==
    /\ assigned(S1)
    /\ students_per_family = <<1, 2>>
    /\ ret = "reported"
    /\ \A p \in Students(S1) : persons[p].family_unit = None

\* the last day step that has been completed (-1 before the first)
last_day_done == day - 1

\* C18: at the end of every day step d of a trial every person is either
\* never infected, with days_with_virus = -1 and day_infected = 1000000, or
\* infected, with 0 <= day_infected <= d and days_with_virus = d -
\* day_infected.
C18_TimerMatchesDay ==
    pc \in {"age", "final", "done"}
    => \A p \in People :
          \/ /\ persons[p].days_with_virus = 0 - 1
             /\ persons[p].day_infected = 1000000
          \/ /\ 0 <= persons[p].day_infected
             /\ persons[p].day_infected <= last_day_done
             /\ persons[p].days_with_virus = last_day_done - persons[p].day_infected

\* C18 witness: the last day step has ended with a resident infected on
\* day 0, a member of a school infected on a later day by the classroom,
\* and a member never infected
C18_Witness ==
    /\ pc = "final"
    /\ \E p \in Range(other_residents) :
          persons[p].day_infected = 0 /\ timer(p) = Horizon - 1
    /\ \E c \in Classrooms : \E m, p \in Members(c) :
          /\ persons[m].day_infected > 0
          /\ persons[p].day_infected = persons[m].day_infected + first_contagious_day
          /\ timer(p) = Horizon - 1 - persons[p].day_infected
    /\ \E p \in People : timer(p) = 0 - 1

sum3(triple) == triple[1] + triple[2] + triple[3]
max(a, b) == IF a < b THEN b ELSE a
Counters ==
    <<S1_infections, S2_infections, Agg_infections,
      S1_infections_no_warning, S1_infections_some_warning, S1_infections_good_warning,
      Agg_infections_no_warning, Agg_infections_some_warning, Agg_infections_good_warning>>
tallies_consistent ==
    /\ Agg_infections = sum3(Agg_triple)
    /\ S1_infections = sum3(S1_triple)
    /\ max(S1_infections, S2_infections) <= Agg_infections
    /\ Agg_infections <= S1_infections + S2_infections
    /\ \A k \in DOMAIN Counters : 0 <= Counters[k] /\ Counters[k] <= sim

seed_step == SeedS1 \/ SeedS2 \/ SchoolSeed

\* C20: within a trial isolation is permanent.  A classroom offline on a
\* day keeps its earliest_positive_test_day and is offline on every later
\* day, however long after its members' contagious days, so the classroom
\* channel never reaches it again; its members can still be infected, but
\* only a student by a contagious student of the family in spread_virus, or
\* a member by a seeding call that returns True.
C20_IsolationPermanent ==
    [][~Setup
          => \A c \in Classrooms :
                isolated(c, day)
                => /\ earliest_positive_test_day'[c] = earliest_positive_test_day[c]
                   /\ day' >= day
                   /\ \A d \in day..(Horizon + last_contagious_day) :
                         offline(earliest_positive_test_day'[c], d)
                   /\ \A p \in Members(c) :
                         newly_infected(p)
                         => \/ /\ spread_step(c[1])
                               /\ \E q \in Students(c[1]) : family_source(p, q)
                            \/ seed_step /\ ret' = "True"]_vars

\* C20 witness: a classroom has been offline since before today, a teacher
\* of it is contagious, a student of it was infected today and another
\* member is still healthy
C20_Witness ==
    /\ pc = "unit_school"
    /\ weekday(day)
    /\ isolated(<<S1, 1>>, day - 1)
    /\ \E m \in Range(teachers(<<S1, 1>>)) : in_contagious_window(timer(m))
    /\ \E p \in Students(S1) : persons[p].day_infected = day
    /\ \E p \in Members(<<S1, 1>>) : timer(p) = 0 - 1

\* in a trial, every member of a classroom is already infected on the
\* days on which the classroom is offline
OfflineClassroomAllInfected ==
    (pc \in {"seed", "spread_S1", "spread_S2", "test"})
    => \A c \in Classrooms :
          isolated(c, day) => \A m \in Members(c) : timer(m) >= 0

\* the person of the town at index idx: the pool first, then institution
\* 1, then institution 2
resolve(idx) ==
    IF idx < PoolSize THEN <<Pool, 0, "resident", idx>>
    ELSE IF idx < first_index(S2) THEN member_at(S1, idx - first_index(S1))
    ELSE member_at(S2, idx - first_index(S2))

seeding_step == SeedResident \/ SeedS1 \/ SeedS2

\* the three parts of the town add up to population, and the indices
\* below population stand one to one for its persons
town_partition ==
    /\ Len(other_residents) + total_people(S1) + total_people(S2) = population
    /\ {resolve(idx) : idx \in 0..(population - 1)} = People
    /\ \A a, b \in 0..(population - 1) : resolve(a) = resolve(b) => a = b

\* C21: len(other_residents) + S1_school.total_people() +
\* S2_school.total_people() = population, and the indices 0..population-1
\* stand one to one for the persons of the town, the pool first, then
\* institution 1, then institution 2.  The indices sampled on a day are
\* distinct and below population; each seeding step touches nobody but the
\* person at its index, takes the branch of that person's place, and calls
\* sicken_xth_person with an index inside the school, so the call never
\* returns from its error branch.
C21_IndexPartition ==
    [][/\ town_partition
       /\ \A a, b \in DOMAIN new_list :
             /\ new_list[a] \in 0..(population - 1)
             /\ new_list[a] = new_list[b] => a = b
       /\ seeding_step
          => LET idx == Head(new_list)
                 p == resolve(idx)
             IN  /\ i' = idx
                 /\ new_list' = Tail(new_list)
                 /\ \A q \in People \ {p} : persons'[q] = persons[q]
                 /\ persons'[p] \in {persons[p], infected_today(p)}
                 /\ SeedResident <=> p[1] = Pool
                 /\ SeedS1 <=> p[1] = S1
                 /\ SeedS2 <=> p[1] = S2
                 /\ p[1] # Pool
                    => /\ idx - first_index(p[1]) \in 0..(total_people(p[1]) - 1)
                       /\ ret' \in {"True", "False"}]_vars

\* C21 witness: a day's three sampled indices, one in the pool and the last
\* member of each institution, have been seeded and three persons are sick
C21_Witness ==
    /\ pc = "spread_S1"
    /\ new_list = <<>>
    /\ i = population - 1
    /\ ret = "True"
    /\ timer(resolve(population - 1)) = 0
    /\ timer(resolve(first_index(S2) - 1)) = 0
    /\ timer(resolve(0)) = 0
    /\ Cardinality({p \in People : timer(p) = 0}) = MaxDayCases

====
